---- MODULE Spec2Model ----
(***************************************************************************)
(* The fxhash sales feed of harvey: the block-polling loop started by the  *)
(* `sales start` command, the commands that run beside it (stop, status,   *)
(* add, remove), the sale extractor it calls and the subscription table it *)
(* reads.                                                                  *)
(*                                                                         *)
(* The bot runs on one asyncio event loop.  A command handler or the feed  *)
(* loop runs without interruption from one `await` that really suspends to *)
(* the next; the chain client and the metadata fetches use the blocking    *)
(* `requests` library and the database uses sqlite3, so they do not        *)
(* suspend.  Each action below is one such uninterrupted stretch.          *)
(***************************************************************************)
EXTENDS Integers, Sequences, FiniteSets, TLC

\* ------------------------------------------------------------------ bounds
MaxLoops == 2       \* feed-loop tasks that may exist at the same time
MaxLevel == 3       \* head levels the chain client reports: 1..MaxLevel
MaxAmount == 1      \* minimum sale amounts a user may set: 0..MaxAmount
MaxFeeds == 1       \* rows the sales feed table may hold
MaxChannel == 1     \* text channels: 1..MaxChannel
WideChannel == 2    \* text channels of the one-task specifications
WideFeeds == 2      \* rows the table may hold in the one-task specifications
MaxTxns == 3        \* transactions of a block handed to the extractor on its own
MaxUsers == 2       \* users who react to a role post: 1..MaxUsers
MaxHandlers == 3    \* reaction handlers that may be under way at the same time
MaxLocks == 3       \* asyncio.Lock objects the lock manager may create

\* --------------------------------------------------------------- constants
None == -1                      \* Python's None (block levels and amounts are >= 0)
MuTez == 1000000                \* MuTez per Tez
FXHASH_GENTK == "KT1KEa8z6vWXDJrVqtMrAeDVzsvxat3kHaCE"
FXHASH_MARKETPLACE == "KT1Xo5B7PNBAeynZPmca4bRh6LQow4og1Zb9"

Loops == 1..MaxLoops
Levels == 1..MaxLevel
Amounts == 0..MaxAmount
Channels == 1..MaxChannel
WideChannels == 1..WideChannel
Users == 1..MaxUsers
Handlers == 1..MaxHandlers
LockIds == 1..MaxLocks

VARIABLES
    sales_feed_active,  \* bot.sales_feed_active
    loop,               \* the feed-loop tasks: the locals of each `start` invocation
    sales_feed_table,   \* rows of the sales feed table, in insertion order
    reply,              \* what the step just taken sent to the invoking user
    extractor,          \* one call of tzkt_get_fxhash_sales_by_block on its own
    client,             \* one call of another chain-client function on its own
    roles               \* the lock manager and the reaction handlers of the Roles cog

vars ==
    <<sales_feed_active, loop, sales_feed_table, reply, extractor, client, roles>>

\* Python truthiness of an Optional[int]: None and 0 are both false.
Truthy(x) == x # None /\ x # 0

\* -------------------------------------------------------- subscription store
GuildOf(c) == c     \* every channel of the model lives in a guild of its own

Row(c, m) == [guild_id |-> GuildOf(c), channel_id |-> c, minimum_sale_amount |-> m]

RECURSIVE SelectRows(_, _)
\* SELECT * FROM sales_feed WHERE guild_id = g AND channel_id = c
SelectRows(t, c) ==
    IF t = <<>> THEN <<>>
    ELSE IF Head(t).channel_id = c /\ Head(t).guild_id = GuildOf(c)
         THEN <<Head(t)>> \o SelectRows(Tail(t), c)
         ELSE SelectRows(Tail(t), c)

get_sales_feed_amount(t, c) ==
    LET res == SelectRows(t, c)
    IN IF res = <<>> THEN None ELSE res[1].minimum_sale_amount

get_sales_feeds(t) == t

RECURSIVE DeleteRows(_, _)
DeleteRows(t, c) ==
    IF t = <<>> THEN <<>>
    ELSE IF Head(t).channel_id = c /\ Head(t).guild_id = GuildOf(c)
         THEN DeleteRows(Tail(t), c)
         ELSE <<Head(t)>> \o DeleteRows(Tail(t), c)

UpdateRows(t, c, m) ==
    [i \in 1..Len(t) |->
        IF t[i].channel_id = c /\ t[i].guild_id = GuildOf(c) THEN Row(c, m) ELSE t[i]]

\* INSERT INTO sales_feed VALUES (...).  The table is created from a query kept
\* outside the sources read here; the store is a plain sequence of (guild_id,
\* channel_id, minimum_amount) triples, so every row is accepted.
InsertRow(t, row) == Append(t, row)

\* The table after set_sales_feed: INSERT when the lookup is falsy, else UPDATE.
SetTable(t, c, m) ==
    IF ~Truthy(get_sales_feed_amount(t, c)) THEN InsertRow(t, Row(c, m))
    ELSE UpdateRows(t, c, m)

\* The value set_sales_feed returns.
SetResult(t, c, m) == get_sales_feed_amount(SetTable(t, c, m), c) = m

\* The table after delete_sales_feed and the value it returns.
DeleteTable(t, c) == DeleteRows(t, c)
DeleteResult(t, c) == ~Truthy(get_sales_feed_amount(DeleteTable(t, c), c))

RECURSIVE MinAmount(_)
\* min(sales_feeds["minimum_sale_amount"].values), of a non-empty table
MinAmount(t) ==
    IF Len(t) = 1 THEN t[1].minimum_sale_amount
    ELSE LET m == MinAmount(Tail(t))
         IN IF Head(t).minimum_sale_amount <= m THEN Head(t).minimum_sale_amount ELSE m

\* ----------------------------------------------------------- sale extractor
\* A transaction record: the columns of the frame the extractor reads.  token_id
\* is parameter.value[0].txs[0].token_id, which only a transfer carries.
Txn(h, e, a, t) ==
    [hash |-> h, entrypoint |-> e, amount |-> a, target |-> t, token_id |-> None]

\* The gentk transfer of token k in operation h
Transfer(h, k) == [Txn(h, "transfer", 0, FXHASH_GENTK) EXCEPT !.token_id = k]

\* The transaction lists tzkt_get_transactions_by_block may return for a block.
EmptyBlock == <<>>
NoSaleBlock == <<Txn("op1", "other", MuTez, FXHASH_MARKETPLACE)>>
OneSaleBlock ==
    <<Txn("op1", "collect", MuTez, FXHASH_MARKETPLACE), Transfer("op1", 1)>>
TwoSaleBlock ==
    <<Txn("op1", "collect", MuTez \div 2, FXHASH_MARKETPLACE), Transfer("op1", 1),
      Txn("op2", "collect", MuTez, FXHASH_MARKETPLACE), Transfer("op2", 2)>>
BlockChoices == {EmptyBlock, NoSaleBlock, OneSaleBlock, TwoSaleBlock}

\* A float NaN: what Series.map gives for a key the mapping lacks.  It equals
\* no count.
NaN == None

RECURSIVE CountOf(_, _)
\* the number of rows of a frame whose hash is h
CountOf(frame, h) ==
    IF frame = <<>> THEN 0
    ELSE (IF Head(frame).hash = h THEN 1 ELSE 0) + CountOf(Tail(frame), h)

\* frame["hash"].value_counts(): a count for every hash the frame holds
value_counts(frame) ==
    [h \in {frame[i].hash : i \in 1..Len(frame)} |-> CountOf(frame, h)]

\* Series.map(counts), at one hash
MapCount(counts, h) == IF h \in DOMAIN counts THEN counts[h] ELSE NaN

\* The row filter of the collect transactions
Qualifying(x, min_sale_amount) ==
    /\ x.entrypoint = "collect"
    /\ x.amount >= min_sale_amount * MuTez
    /\ x.target = FXHASH_MARKETPLACE

\* value_counts() of the hashes of the qualifying collect transactions, at h
CollectCount(txns, h, min_sale_amount) ==
    MapCount(value_counts(SelectSeq(txns, LAMBDA x : Qualifying(x, min_sale_amount))),
             h)

\* value_counts() of the hashes of the transfer transactions, at h
TransferCount(txns, h) ==
    MapCount(value_counts(SelectSeq(txns, LAMBDA x : x.entrypoint = "transfer")), h)

\* ExactlyOne as `>= 1`
AtLeastOne(n) == n >= 1

\* `== 1`
ExactlyOne(n) == n = 1

RECURSIVE Unique(_, _)
\* Series.unique(): the values in order of first appearance
Unique(s, seen) ==
    IF s = <<>> THEN <<>>
    ELSE IF Head(s) \in seen THEN Unique(Tail(s), seen)
         ELSE <<Head(s)>> \o Unique(Tail(s), seen \cup {Head(s)})

RECURSIVE HashesWhere(_, _, _)
HashesWhere(txns, all, min_sale_amount) ==
    IF txns = <<>> THEN <<>>
    ELSE (IF /\ ExactlyOne(CollectCount(all, Head(txns).hash, min_sale_amount))
             /\ ExactlyOne(TransferCount(all, Head(txns).hash))
          THEN <<Head(txns).hash>> ELSE <<>>)
         \o HashesWhere(Tail(txns), all, min_sale_amount)

sales_hashes(txns, min_sale_amount) ==
    Unique(HashesWhere(txns, txns, min_sale_amount), {})

RECURSIVE SelectHash(_, _)
\* tzkt_get_transaction_by_hash: the records of one operation
SelectHash(txns, h) ==
    IF txns = <<>> THEN <<>>
    ELSE IF Head(txns).hash = h THEN <<Head(txns)>> \o SelectHash(Tail(txns), h)
         ELSE SelectHash(Tail(txns), h)

RECURSIVE FirstWith(_, _)
\* txn.loc[txn["parameter.entrypoint"] == e][:1]: at most one record
FirstWith(txn, e) ==
    IF txn = <<>> THEN <<>>
    ELSE IF Head(txn).entrypoint = e THEN <<Head(txn)>> ELSE FirstWith(Tail(txn), e)

\* The body of tzkt_get_fxhash_sale, txn being the records the by-hash lookup
\* returned.  err is the exception that leaves it:
\*   "KeyError"    no record at all: the frame has no column to select on;
\*   "ValueError"  no collect record: `collect` is an empty frame, sale.buyer_hash
\*                 an empty Series, and `if sale.buyer_hash` has no truth value.
\* Without a transfer record `transfer` is an empty frame and token_id is None.
\* The two selections never raise IndexError, so the handler of the try is dead.
\* sale.amount is collect.get("amount", 0) / 1000000.  The quotient is kept as
\* the number of MuTez it stands for, so amount = n means n / 1000000 Tez.
FxhashSale(txn, h) ==
    LET collect == FirstWith(txn, "collect")
        transfer == FirstWith(txn, "transfer")
        failed(e) == [err |-> e, txn_hash |-> h, amount |-> 0, token_id |-> None]
    IN IF txn = <<>> THEN failed("KeyError")
       ELSE IF collect = <<>> THEN failed("ValueError")
       ELSE [err |-> "none", txn_hash |-> h, amount |-> collect[1].amount,
             token_id |-> IF transfer = <<>> THEN None ELSE transfer[1].token_id]

\* tzkt_get_fxhash_sale when the by-hash lookup returns the operation's records
\* as the block holds them
tzkt_get_fxhash_sale(txns, h) == FxhashSale(SelectHash(txns, h), h)

\* AmountGE with a strict comparison
AmountGT(sale, m) == sale.amount > m * MuTez

\* sale.amount >= minimum_sale_amount, both in Tez
AmountGE(sale, m) == sale.amount >= m * MuTez

RECURSIVE PostChannels(_, _)
\* sales_feeds.loc[sale.amount >= sales_feeds["minimum_sale_amount"]]
PostChannels(t, sale) ==
    IF t = <<>> THEN <<>>
    ELSE (IF AmountGE(sale, Head(t).minimum_sale_amount) THEN <<Head(t)>> ELSE <<>>)
         \o PostChannels(Tail(t), sale)

\* ------------------------------------------------------------ the feed loop
\* One task of `start`.  pc is the await the task is suspended in:
\*   "notify"     await notify(...) of the first iteration
\*   "saleDelay"  await asyncio.sleep(0.5) after the token fetch of sale si
\*   "fetch"      await bot.fetch_channel(...) for row ci of post_channels
\*   "sendDelay"  await asyncio.sleep(0.5) before the send
\*   "send"       await channel.send(...)
\*   "sleep"      await asyncio.sleep(20 or 30) that ends an iteration
\* and "none" (no task), "exited" (the while condition was false), "dead" (an
\* exception left the handler; err names the call that raised).
\* prev, cur, snap, sales are prev_block_id, current_block_id, sales_feeds, sales.
\* to is the channel_id of the row being dispatched (0 outside the dispatch).
\* The other fields record what the current iteration and run have done:
\*   head     the level the last poll reported (None when the poll failed)
\*   loaded   get_sales_feeds was called in this iteration
\*   xl       the levels passed to extraction in this iteration
\*   sent     a channel.send completed in this iteration
\*   got      the channels the sale being dispatched has been sent to, in order
\*   delay    the seconds of the asyncio.sleep that ends the iteration (0 outside it)
\*   stale    the parity of the iterations in a row that found the block not
\*            advanced: it tells a poll that changed nothing from no poll at all
NoLoop ==
    [pc |-> "none", prev |-> None, cur |-> None, snap |-> <<>>, sales |-> <<>>,
     si |-> 0, ci |-> 0, to |-> 0, err |-> "none", head |-> None,
     loaded |-> FALSE, xl |-> {}, sent |-> FALSE, got |-> <<>>, delay |-> 0,
     stale |-> 0]

Live(r) == r.pc \notin {"none", "exited", "dead"}

\* The locals no later statement reads are dropped when the task sleeps or ends.
DropLocals(r) ==
    [r EXCEPT !.snap = <<>>, !.sales = <<>>, !.si = 0, !.ci = 0, !.to = 0,
              !.got = <<>>, !.stale = 0]

\* An exception propagates out of `start`: the task ends, nothing else happens.
\* Of a task ended by an exception only the way it ended is kept.
Raise(r, e) == [NoLoop EXCEPT !.pc = "dead", !.err = e]

\* `while bot.sales_feed_active` is false: `start` returns.  Of the run that has
\* ended the record keeps the block its last iteration worked on (the cursor)
\* and whether that iteration sent a sale.
Return(r) == [NoLoop EXCEPT !.pc = "exited", !.prev = r.prev, !.sent = r.sent]

\* EndIteration without `prev_block_id = current_block_id`
EndIterationKeepCursor(r) == [DropLocals(r) EXCEPT !.pc = "sleep", !.delay = 20]

\* The end of the loop body: prev_block_id = current_block_id; await
\* asyncio.sleep(20)
EndIteration(r) ==
    [DropLocals(r) EXCEPT !.pc = "sleep", !.prev = r.cur, !.delay = 20]

\* `Block hasn't advanced`: prev_block_id = current_block_id, sleep(20), continue
StaleBlock(r) == [EndIteration(r) EXCEPT !.delay = 20, !.stale = 1 - r.stale]

\* SkipBlock without `prev_block_id = current_block_id`
SkipBlockKeepCursor(r) == [DropLocals(r) EXCEPT !.pc = "sleep", !.delay = 30]

\* SkipBlock sleeping the delay of the end of the loop body
SkipBlockShortSleep(r) == EndIteration(r)

\* `if sales_feeds.empty`: prev_block_id = current_block_id, sleep(30), continue
SkipBlock(r) == [EndIteration(r) EXCEPT !.delay = 30]

\* sales_feeds read from the table again at every use
sales_feeds_reloaded(r, table) == table

\* The local sales_feeds, as the dispatch reads it: the frame loaded at the top
\* of the iteration, whatever the table holds by now.
sales_feeds(r, table) == r.snap

\* Clamp without the `Feed is behind` branch: the loop jumps to the head.
ClampToHead(prev, current_block_id) == current_block_id

\* The block the iteration works on: `elif current_block_id > prev_block_id + 1`
Clamp(prev, current_block_id) ==
    IF current_block_id > prev + 1 THEN prev + 1 ELSE current_block_id

\* WhileActive as `while True`
WhileTrue(flag) == TRUE

\* `while bot.sales_feed_active`
WhileActive(flag) == flag

\* NotAdvanced comparing against the next block instead of the cursor
NotAdvancedOffByOne(prev, current_block_id) == current_block_id = prev + 1

\* `if current_block_id == prev_block_id`
NotAdvanced(prev, current_block_id) == current_block_id = prev

\* fxhash_get_token for sale i, create_message, then await asyncio.sleep(0.5)
BeginSale(r, i, tokOk) ==
    IF tokOk
    THEN [r EXCEPT !.pc = "saleDelay", !.si = i, !.ci = 0, !.to = 0, !.got = <<>>]
    ELSE Raise(r, "enrichment")

\* `for sale in sales` moves on, or the loop body ends
NextSale(r, tokOk) ==
    IF r.si < Len(r.sales) THEN BeginSale(r, r.si + 1, tokOk) ELSE EndIteration(r)

\* tzkt_get_fxhash_sales_by_block(cur, floor) and the start of the dispatch.
\* xres is what the chain and the profile pages answer: "ok", "chain" (the block's
\* transaction list is refused), "extraction" (a by-hash lookup is refused),
\* "enrichment" (a profile page is refused).  A block without transactions makes
\* a frame without columns, and txns["hash"] raises KeyError ("frame").
Extract(r, txns, xres, tokOk) ==
    LET min_sale_amount == MinAmount(r.snap)
        r1 == [r EXCEPT !.xl = r.xl \cup {r.cur}]
        hashes == sales_hashes(txns, min_sale_amount)
        r2 == [r1 EXCEPT !.sales =
                 [i \in 1..Len(hashes) |-> tzkt_get_fxhash_sale(txns, hashes[i])]]
    IN IF xres = "chain" THEN Raise(r1, "chain")
       ELSE IF txns = EmptyBlock THEN Raise(r1, "frame")
       ELSE IF hashes # <<>> /\ xres # "ok" THEN Raise(r1, xres)
       ELSE IF hashes = <<>> THEN EndIteration(r2)
       ELSE BeginSale(r2, 1, tokOk)

\* The loop body from the `Loop limiters` comparison on, h being the level polled.
Iterate(r, h, feeds, txns, xres, tokOk) ==
    LET r0 == [r EXCEPT !.head = h, !.cur = h, !.delay = 0,
                        !.loaded = FALSE, !.xl = {}, !.sent = FALSE]
        r1 == [r0 EXCEPT !.cur = Clamp(r0.prev, h), !.snap = get_sales_feeds(feeds),
                         !.loaded = TRUE, !.stale = 0]
    IN IF NotAdvanced(r0.prev, h) THEN StaleBlock(r0)
       ELSE IF r1.snap = <<>> THEN SkipBlock(r1)
       ELSE Extract(r1, txns, xres, tokOk)

\* AlreadyRunning without the test: every start command starts a loop.
NeverRunning(flag) == FALSE

\* `if bot.sales_feed_active` at the top of `start`
AlreadyRunning(flag) == flag

\* CommandErrorHandler.on_command_error: an exception that leaves a command is
\* reported to the channel the command came from.
CommandFailed == "failed"

\* FirstPoll with the cursor set to the head itself
FirstPollAtHead(h) ==
    [NoLoop EXCEPT !.pc = "notify", !.prev = h, !.cur = h, !.head = h]

\* First time setup: prev_block_id = current_block_id - 1, then notify is awaited.
FirstPoll(h) ==
    [NoLoop EXCEPT !.pc = "notify", !.prev = h - 1, !.cur = h, !.head = h]

\* What the network may answer during one stretch of the loop.
XResults == {"ok", "chain", "extraction", "enrichment"}

\* The states a task may be in after the first iteration's body has run.
NotifiedOutcomes(r, feeds) ==
    {Raise(r, "notify")} \cup
    {Iterate(r, r.head, feeds, txns, xres, tokOk) :
        txns \in BlockChoices, xres \in XResults, tokOk \in BOOLEAN}

\* The states a task may be in after `while bot.sales_feed_active` was true.
WakeOutcomes(r, feeds) ==
    {Raise(r, "chain")} \cup
    UNION {{Iterate(r, h, feeds, txns, xres, tokOk) :
               txns \in BlockChoices, xres \in XResults, tokOk \in BOOLEAN} :
           h \in Levels}

\* ------------------------------------------- chain-client calls on their own
\* One call of tzkt_get_current_block ("head"), of fxhash_get_profile_alias
\* ("alias") or of the seller lookup of tzkt_get_fxhash_sale ("seller"):
\*   status   the status code of the HTTP response
\*   level, hash   info.get("level"), info.get("hash") of the /head payload; None and
\*            NoHash stand for a key the payload lacks
\*   address  the wallet address passed to the alias lookup
\*   matches  what re.findall gives for the alias title pattern on the page
\*   diffs    the shape of the collect record's storage diff, issuer its seller
\*   ret      the value returned, as a tuple, when pc = "returned"
\*   err      the exception raised when pc = "raised"
NoHash == ""
NoAddress == ""

NoCall ==
    [fn |-> "none", pc |-> "idle", status |-> 200, level |-> None, hash |-> NoHash,
     address |-> NoAddress, matches |-> <<>>, diffs |-> "no column",
     issuer |-> NoAddress, ret |-> <<>>, err |-> "none"]

Statuses == {200, 404, 500}
BlockHashes == {"BL1", "BL2"}
Addresses == {"tz1a", "tz1b"}
Aliases == {"alice", "bob"}

\* `not x` of a str or None: the empty string stands for both
Falsy(x) == x = ""

\* request without the status test
requestAnyStatus(status) == "none"

\* TezosConnection.request: the exception it raises, if any
request(status) == IF status # 200 THEN "TezosError" ELSE "none"

\* tzkt_get_current_block on a response of the given status and payload
tzkt_get_current_block(status, block_level, block_hash) ==
    IF request(status) # "none" THEN [err |-> request(status), ret |-> <<>>]
    ELSE IF ~Truthy(block_level) \/ Falsy(block_hash)
         THEN [err |-> "TezosError", ret |-> <<>>]
         ELSE [err |-> "none", ret |-> <<block_level, block_hash>>]

\* fxhash_get_profile_alias on a page of the given status; matches[1] is the
\* [0] of the findall, which raises IndexError on an empty list
fxhash_get_profile_alias(status, matches, profile_hash) ==
    IF status # 200 THEN [err |-> "TezosError", ret |-> <<>>]
    ELSE IF matches = <<>> THEN [err |-> "none", ret |-> <<profile_hash>>]
         ELSE [err |-> "none", ret |-> <<matches[1]>>]

\* The shapes collect.get("diffs", list()) may have:
\*   "no column"     no record of the operation has diffs: the default list()
\*   "nan"           another record has diffs, the collect has none: a float NaN
\*   "empty"         []
\*   "no content"    [{...}] without the key content
\*   "null content"  [{"content": null}]
\*   "no value"      [{"content": {...}}] without the key value
\*   "scalar value"  [{"content": {"value": "..."}}]: a value that is no object
\*   "no issuer"     [{"content": {"value": {...}}}] without the key issuer
\*   "issuer"        [{"content": {"value": {"issuer": ...}}}]
DiffShapes ==
    {"no column", "nan", "empty", "no content", "null content", "no value",
     "scalar value", "no issuer", "issuer"}

\* sale.seller_hash:
\*   diffs = next(iter(collect.get("diffs", list())), dict())
\*   diffs.get("content", dict()).get("value", dict()).get("issuer", None)
\* iter() of a float raises TypeError; .get of None or of a str raises
\* AttributeError; every missing key takes the default.
seller_hash(diffs, issuer) ==
    IF diffs = "nan" THEN [err |-> "TypeError", ret |-> <<>>]
    ELSE IF diffs \in {"null content", "scalar value"}
         THEN [err |-> "AttributeError", ret |-> <<>>]
         ELSE IF diffs = "issuer" THEN [err |-> "none", ret |-> <<issuer>>]
              ELSE [err |-> "none", ret |-> <<NoAddress>>]

\* ------------------------------------------- the lock manager (utils/locks.py)
\* roles.locks    lock_manager.locks: the lock of each user id, 0 for no entry;
\*                a lock object is known by the number of its creation
\* roles.made     the asyncio.Lock objects created so far
\* roles.owner    for each lock object the handler that holds it, 0 when unlocked
\* roles.wait     for each lock object the handlers suspended in its acquire(),
\*                in the order of their calls (asyncio.Lock wakes the first)
\* roles.handler  for each reaction handler: kind ("add" for on_raw_reaction_add,
\*                "remove" for on_raw_reaction_remove), the user who reacted,
\*                the lock get_lock returned to it, and where it is suspended:
\*                  "member"   await guild.fetch_member(user_id)
\*                  "waiting"  the acquire() of `async with`
\*                  "roles"    an await of the role section, the lock held
\*                  "idle"     no event is being handled
\* self.main_lock is taken and released inside get_lock, which has no await
\* under it: acquire() of an unlocked asyncio.Lock does not suspend, so no task
\* ever finds main_lock taken and get_lock is one uninterrupted stretch.
NoHandler == [pc |-> "idle", kind |-> "none", user |-> 0, lock |-> 0]

NoRoles ==
    [locks |-> [u \in Users |-> 0], made |-> 0,
     owner |-> [k \in LockIds |-> 0], wait |-> [k \in LockIds |-> <<>>],
     handler |-> [h \in Handlers |-> NoHandler]]

\* get_lock without `if not user_id in self.locks`: a new lock at every call
get_lock_uncached(locks, made, user_id) ==
    [locks |-> [locks EXCEPT ![user_id] = made + 1], made |-> made + 1,
     lock |-> made + 1]

\* Locks.get_lock: the dictionary and the number of locks after the call, and
\* the lock returned
get_lock(locks, made, user_id) ==
    IF locks[user_id] = 0
    THEN [locks |-> [locks EXCEPT ![user_id] = made + 1], made |-> made + 1,
          lock |-> made + 1]
    ELSE [locks |-> locks, made |-> made, lock |-> locks[user_id]]

\* ------------------------------------------------- the extractor on its own
\* One call of tzkt_get_fxhash_sales_by_block(block_id, min_sale_amount):
\*   txns     what tzkt_get_transactions_by_block returns for the block
\*   hashes   sales_hashes, once the block filter has run
\*   details  what tzkt_get_transaction_by_hash returned for the hashes done
\*   sales    the sales built so far; the list returned when pc = "returned"
\*   err      the exception that left the call when pc = "raised"
NoExtraction ==
    [pc |-> "idle", txns |-> <<>>, min_sale_amount |-> 0, hashes |-> <<>>,
     details |-> <<>>, sales |-> <<>>, err |-> "none"]

OpHashes == {"op1", "op2"}

\* The transactions a block may hold.
TxnChoices ==
    {Txn(h, "collect", a, t) :
        h \in OpHashes, a \in {MuTez \div 2, MuTez},
        t \in {FXHASH_MARKETPLACE, FXHASH_GENTK}}
    \cup {Transfer(h, 1) : h \in OpHashes}
    \cup {Txn(h, "other", 0, FXHASH_GENTK) : h \in OpHashes}

BlockInputs == UNION {[1..n -> TxnChoices] : n \in 0..MaxTxns}

\* What the by-hash lookup of operation h may return: the records of h as the
\* block held them, or, the index having changed since, fewer of them.
DetailAnswers(txns, h) ==
    LET d == SelectHash(txns, h)
    IN {d,
        SelectSeq(d, LAMBDA x : x.entrypoint # "collect"),
        SelectSeq(d, LAMBDA x : x.entrypoint # "transfer"),
        <<>>}

ExtractorInit ==
    /\ sales_feed_active = FALSE
    /\ loop = [l \in Loops |-> NoLoop]
    /\ sales_feed_table = <<>>
    /\ reply = "none"
    /\ client = NoCall
    /\ roles = NoRoles
    /\ extractor \in
         {[NoExtraction EXCEPT !.pc = "called", !.txns = t, !.min_sale_amount = m] :
             t \in BlockInputs, m \in Amounts}

\* The block's transactions are loaded and filtered down to sales_hashes.
FilterBlock ==
    /\ extractor.pc = "called"
    /\ extractor' =
         IF extractor.txns = EmptyBlock
         THEN [extractor EXCEPT !.pc = "raised", !.err = "KeyError"]
         ELSE [extractor EXCEPT
                 !.pc = "filtered",
                 !.hashes = sales_hashes(extractor.txns, extractor.min_sale_amount)]
    /\ UNCHANGED <<sales_feed_active, loop, sales_feed_table, reply, client, roles>>

\* tzkt_get_fxhash_sale for the next hash of the list comprehension
DetailSale ==
    /\ extractor.pc = "filtered"
    /\ Len(extractor.sales) < Len(extractor.hashes)
    /\ \E txn \in DetailAnswers(extractor.txns,
                                extractor.hashes[Len(extractor.sales) + 1]) :
         LET sale == FxhashSale(txn, extractor.hashes[Len(extractor.sales) + 1])
         IN extractor' =
              IF sale.err # "none"
              THEN [extractor EXCEPT !.pc = "raised", !.err = sale.err,
                                     !.details = <<>>, !.sales = <<>>]
              ELSE [extractor EXCEPT !.details = Append(@, txn),
                                     !.sales = Append(@, sale)]
    /\ UNCHANGED <<sales_feed_active, loop, sales_feed_table, reply, client, roles>>

\* `return sales`
ExtractReturn ==
    /\ extractor.pc = "filtered"
    /\ Len(extractor.sales) = Len(extractor.hashes)
    /\ extractor' = [extractor EXCEPT !.pc = "returned"]
    /\ UNCHANGED <<sales_feed_active, loop, sales_feed_table, reply, client, roles>>

ExtractorNext == FilterBlock \/ DetailSale \/ ExtractReturn

ExtractorSpec == ExtractorInit /\ [][ExtractorNext]_vars

\* ------------------------------------ the chain-client calls, one at a time
ClientInit ==
    /\ sales_feed_active = FALSE
    /\ loop = [l \in Loops |-> NoLoop]
    /\ sales_feed_table = <<>>
    /\ reply = "none"
    /\ extractor = NoExtraction
    /\ roles = NoRoles
    /\ client \in
         {[NoCall EXCEPT !.fn = "head", !.pc = "called", !.status = st,
                         !.level = lv, !.hash = bh] :
             st \in Statuses, lv \in {None} \cup Levels,
             bh \in {NoHash} \cup BlockHashes}
         \cup
         {[NoCall EXCEPT !.fn = "alias", !.pc = "called", !.status = st,
                         !.address = a, !.matches = ms] :
             st \in Statuses, a \in Addresses,
             ms \in {<<>>} \cup {<<n>> : n \in Aliases}}
         \cup
         {[NoCall EXCEPT !.fn = "seller", !.pc = "called", !.diffs = d,
                         !.issuer = a] :
             d \in DiffShapes, a \in Addresses}

\* The call ends: it returns res.ret or raises res.err.
CallEnds(res) ==
    /\ client' = [client EXCEPT !.pc = IF res.err = "none" THEN "returned" ELSE "raised",
                                !.ret = res.ret, !.err = res.err]
    /\ UNCHANGED <<sales_feed_active, loop, sales_feed_table, reply, extractor, roles>>

CurrentBlockCall ==
    /\ client.fn = "head" /\ client.pc = "called"
    /\ CallEnds(tzkt_get_current_block(client.status, client.level, client.hash))

ProfileAliasCall ==
    /\ client.fn = "alias" /\ client.pc = "called"
    /\ CallEnds(fxhash_get_profile_alias(client.status, client.matches, client.address))

SellerCall ==
    /\ client.fn = "seller" /\ client.pc = "called"
    /\ CallEnds(seller_hash(client.diffs, client.issuer))

ClientNext == CurrentBlockCall \/ ProfileAliasCall \/ SellerCall

ClientSpec == ClientInit /\ [][ClientNext]_vars

\* --------------------------------------- the reaction handlers on their own
RolesStep(r) ==
    /\ roles' = r
    /\ UNCHANGED <<sales_feed_active, loop, sales_feed_table, reply, extractor, client>>

\* A reaction of user u on a role post is added or removed; the handler passes
\* its checks and awaits guild.fetch_member.  (A handler that returns at one of
\* the checks takes no lock and leaves no trace.)
ReactionEvent(h, kind, u) ==
    /\ roles.handler[h].pc = "idle"
    /\ RolesStep([roles EXCEPT !.handler[h] =
                    [pc |-> "member", kind |-> kind, user |-> u, lock |-> 0]])

\* fetch_member raised: the handler ends without having asked for the lock.
MemberFailed(h) ==
    /\ roles.handler[h].pc = "member"
    /\ RolesStep([roles EXCEPT !.handler[h] = NoHandler])

\* fetch_member returned: `async with (await lock_manager.get_lock(user_id))`.
\* The lock is taken at once when it is unlocked and nobody waits for it, and
\* the role section runs to its first await; otherwise the handler waits.
MemberFetched(h) ==
    LET me == roles.handler[h]
        got == get_lock(roles.locks, roles.made, me.user)
        r1 == [roles EXCEPT !.locks = got.locks, !.made = got.made]
    IN /\ me.pc = "member"
       /\ got.made <= MaxLocks
       /\ RolesStep(
            IF roles.owner[got.lock] = 0 /\ roles.wait[got.lock] = <<>>
            THEN [r1 EXCEPT !.owner[got.lock] = h,
                            !.handler[h] = [me EXCEPT !.pc = "roles",
                                                      !.lock = got.lock]]
            ELSE [r1 EXCEPT !.wait[got.lock] = Append(@, h),
                            !.handler[h] = [me EXCEPT !.pc = "waiting",
                                                      !.lock = got.lock]])

\* The first waiter of an unlocked lock is resumed and takes it.
LockAcquired(h) ==
    LET me == roles.handler[h]
    IN /\ me.pc = "waiting"
       /\ roles.owner[me.lock] = 0
       /\ Head(roles.wait[me.lock]) = h
       /\ RolesStep([roles EXCEPT !.owner[me.lock] = h,
                                  !.wait[me.lock] = Tail(@),
                                  !.handler[h] = [me EXCEPT !.pc = "roles"]])

\* The role section ends, by its return or by an exception: `async with`
\* releases the lock and the handler is over.
RolesDone(h) ==
    LET me == roles.handler[h]
    IN /\ me.pc = "roles"
       /\ RolesStep([roles EXCEPT !.owner[me.lock] = 0,
                                  !.handler[h] = NoHandler])

RolesNext ==
    \/ \E h \in Handlers, kind \in {"add", "remove"}, u \in Users :
          ReactionEvent(h, kind, u)
    \/ \E h \in Handlers : MemberFailed(h)
    \/ \E h \in Handlers : MemberFetched(h)
    \/ \E h \in Handlers : LockAcquired(h)
    \/ \E h \in Handlers : RolesDone(h)

RolesInit ==
    /\ sales_feed_active = FALSE
    /\ loop = [l \in Loops |-> NoLoop]
    /\ sales_feed_table = <<>>
    /\ reply = "none"
    /\ extractor = NoExtraction
    /\ client = NoCall
    /\ roles = NoRoles

RolesSpec == RolesInit /\ [][RolesNext]_vars

\* ----------------------------------------------------------------- actions
Init ==
    /\ sales_feed_active = FALSE
    /\ loop = [l \in Loops |-> NoLoop]
    /\ sales_feed_table = <<>>
    /\ reply = "none"
    /\ extractor = NoExtraction
    /\ client = NoCall
    /\ roles = NoRoles

\* override_status of a notify call without one (None, or the empty string)
NoStatus == ""

\* The override statuses a user may type after `sales notify` / `sales status`
Spoofs == {"started", "stopped"}

\* notify without the test of the command name
notifyUnguarded(name, override_status, active) ==
    IF override_status = NoStatus
    THEN (IF active THEN "Running" ELSE "Inactive")
    ELSE override_status

\* What notify sends to the channel of the command named `name`
\* (ctx.command.name): the status given, or the state of the flag; called by a
\* user with a status it raises ArgumentParsingError, which the error handler
\* reports.
notify(name, override_status, active) ==
    IF name = "notify" /\ override_status # NoStatus THEN CommandFailed
    ELSE IF override_status = NoStatus
         THEN (IF active THEN "Running" ELSE "Inactive")
         ELSE override_status

\* The slot a new task takes: the first one that holds no live task.
FreeSlot(l) == ~Live(loop[l]) /\ \A k \in Loops : k < l => Live(loop[k])

\* `sales start` while the feed is inactive, up to its first suspension: the flag
\* is set, the head is polled and the start notification is sent; when the poll
\* raises, the error handler reports the failure instead.
Start(l) ==
    /\ ~AlreadyRunning(sales_feed_active)
    /\ FreeSlot(l)
    /\ sales_feed_active' = TRUE
    /\ \E pollOk \in BOOLEAN, h \in Levels :
         IF pollOk
         THEN /\ loop' = [loop EXCEPT ![l] = FirstPoll(h)]
              /\ reply' = notify("start", "started", TRUE)
         ELSE /\ loop' = [loop EXCEPT ![l] = Raise(NoLoop, "chain")]
              /\ reply' = CommandFailed
    /\ UNCHANGED <<sales_feed_table, extractor, client, roles>>

\* `sales start` while the flag is set
StartRejected ==
    /\ AlreadyRunning(sales_feed_active)
    /\ reply' = "already running"
    /\ UNCHANGED <<sales_feed_active, loop, sales_feed_table, extractor, client, roles>>

\* A stop that cancels the tasks of the feed instead of leaving them to the flag
StopCancelling ==
    /\ sales_feed_active' = FALSE
    /\ \E pollOk \in BOOLEAN :
         reply' = IF pollOk THEN notify("stop", "stopped", FALSE) ELSE CommandFailed
    /\ loop' = [l \in Loops |-> IF Live(loop[l]) THEN Return(loop[l]) ELSE loop[l]]
    /\ UNCHANGED <<sales_feed_table, extractor, client, roles>>

\* `sales stop`
Stop ==
    /\ sales_feed_active' = FALSE
    /\ \E pollOk \in BOOLEAN :
         reply' = IF pollOk THEN notify("stop", "stopped", FALSE) ELSE CommandFailed
    /\ UNCHANGED <<loop, sales_feed_table, extractor, client, roles>>

\* `sales status` (notify without an override status)
Status ==
    /\ reply' = notify("notify", NoStatus, sales_feed_active)
    /\ UNCHANGED <<sales_feed_active, loop, sales_feed_table, extractor, client, roles>>

\* `sales notify <status>` or `sales status <status>`, typed by a user
StatusOverride ==
    /\ \E override_status \in Spoofs :
         reply' = notify("notify", override_status, sales_feed_active)
    /\ UNCHANGED <<sales_feed_active, loop, sales_feed_table, extractor, client, roles>>

\* `sales add <channel> <min_amount>`, while the table stays within n rows
AddWithin(c, m, n) ==
    /\ Len(SetTable(sales_feed_table, c, m)) <= n
    /\ sales_feed_table' = SetTable(sales_feed_table, c, m)
    /\ reply' = "none"
    /\ UNCHANGED <<sales_feed_active, loop, extractor, client, roles>>

Add(c, m) == AddWithin(c, m, MaxFeeds)

\* `sales remove <channel>`
Remove(c) ==
    LET existing_amount == get_sales_feed_amount(sales_feed_table, c)
    IN /\ sales_feed_table' = IF ~Truthy(existing_amount) THEN sales_feed_table
                              ELSE DeleteTable(sales_feed_table, c)
       /\ reply' = "none"
       /\ UNCHANGED <<sales_feed_active, loop, extractor, client, roles>>

\* A step of task l to r.  The task sends the invoking user nothing, unless an
\* exception leaves `start`.
LoopStep(l, r) ==
    /\ loop' = [loop EXCEPT ![l] = r]
    /\ reply' = IF r.pc = "dead" THEN CommandFailed ELSE "none"
    /\ UNCHANGED <<sales_feed_active, sales_feed_table, extractor, client, roles>>

\* The start notification was sent (or refused); the first iteration goes on.
LoopNotified(l) ==
    /\ loop[l].pc = "notify"
    /\ \E r \in NotifiedOutcomes(loop[l], sales_feed_table) : LoopStep(l, r)

\* The sleep that ended an iteration is over: `while bot.sales_feed_active`, the
\* poll, and the loop body up to its next suspension.
LoopWake(l) ==
    /\ loop[l].pc = "sleep"
    /\ IF ~WhileActive(sales_feed_active)
       THEN LoopStep(l, Return(loop[l]))
       ELSE \E r \in WakeOutcomes(loop[l], sales_feed_table) : LoopStep(l, r)

\* The delay after the token fetch is over: post_channels is computed and the
\* first channel is looked up.
LoopSaleDelay(l) ==
    LET r == loop[l]
        post_channels == PostChannels(sales_feeds(r, sales_feed_table), r.sales[r.si])
    IN /\ r.pc = "saleDelay"
       /\ IF post_channels # <<>>
          THEN LoopStep(l, [r EXCEPT !.pc = "fetch", !.ci = 1,
                                     !.to = post_channels[1].channel_id])
          ELSE \E r2 \in {NextSale(r, tokOk) : tokOk \in BOOLEAN} : LoopStep(l, r2)

\* LoopFetched without the delay before the send
LoopFetchedNoDelay(l) ==
    /\ loop[l].pc = "fetch"
    /\ \E ok \in BOOLEAN :
         LoopStep(l, IF ok THEN [loop[l] EXCEPT !.pc = "send"]
                     ELSE Raise(loop[l], "delivery"))

\* bot.fetch_channel returned or raised
LoopFetched(l) ==
    /\ loop[l].pc = "fetch"
    /\ \E ok \in BOOLEAN :
         LoopStep(l, IF ok THEN [loop[l] EXCEPT !.pc = "sendDelay"]
                     ELSE Raise(loop[l], "delivery"))

\* The delay before the send is over: channel.send is called.
LoopSendDelay(l) ==
    /\ loop[l].pc = "sendDelay"
    /\ LoopStep(l, [loop[l] EXCEPT !.pc = "send"])

\* channel.send returned or raised; the next row, the next sale or the end of the
\* loop body follows.
LoopSent(l) ==
    LET r == loop[l]
        r1 == [r EXCEPT !.sent = TRUE, !.got = Append(r.got, r.to)]
        post_channels == PostChannels(sales_feeds(r, sales_feed_table), r.sales[r.si])
    IN /\ r.pc = "send"
       /\ \E r2 \in {Raise(r, "delivery")} \cup
                    (IF r.ci < Len(post_channels)
                     THEN {[r1 EXCEPT !.pc = "fetch", !.ci = r.ci + 1,
                                      !.to = post_channels[r.ci + 1].channel_id]}
                     ELSE {NextSale(r1, tokOk) : tokOk \in BOOLEAN}) :
            LoopStep(l, r2)

Next ==
    \/ \E l \in Loops : Start(l)
    \/ StartRejected
    \/ Stop
    \/ Status
    \/ \E c \in Channels, m \in Amounts : Add(c, m)
    \/ \E c \in Channels : Remove(c)
    \/ \E l \in Loops : LoopNotified(l)
    \/ \E l \in Loops : LoopWake(l)
    \/ \E l \in Loops : LoopSaleDelay(l)
    \/ \E l \in Loops : LoopFetched(l)
    \/ \E l \in Loops : LoopSendDelay(l)
    \/ \E l \in Loops : LoopSent(l)

Spec == Init /\ [][Next]_vars

\* One task of the feed and a table of up to WideFeeds rows over WideChannel
\* channels: a feed that is started once and the subscriptions changing beside it.
DispatchNext ==
    \/ Start(1)
    \/ \E c \in WideChannels, m \in Amounts : AddWithin(c, m, WideFeeds)
    \/ \E c \in WideChannels : Remove(c)
    \/ LoopNotified(1)
    \/ LoopWake(1)
    \/ LoopSaleDelay(1)
    \/ LoopFetched(1)
    \/ LoopSendDelay(1)
    \/ LoopSent(1)

DispatchSpec == Init /\ [][DispatchNext]_vars

\* The feed while no channel is subscribed: the tasks poll and sleep, the users
\* start and stop.  Every poll and every sleep of a task returns (or raises): a
\* task suspended in an await is eventually resumed by the event loop.  Commands
\* are issued by users and are under no such obligation.
IdleFeedNext ==
    \/ \E l \in Loops : Start(l)
    \/ Stop
    \/ \E l \in Loops : LoopNotified(l)
    \/ \E l \in Loops : LoopWake(l)

IdleFeedFairness ==
    \A l \in Loops : WF_vars(LoopNotified(l)) /\ WF_vars(LoopWake(l))

IdleFeedSpec == Init /\ [][IdleFeedNext]_vars /\ IdleFeedFairness

\* The commands that start, stop and report the feed, typed in any order, and
\* the tasks of the feed polling and sleeping beside them (no channel is
\* subscribed).
CommandNext ==
    \/ \E l \in Loops : Start(l)
    \/ StartRejected
    \/ Stop
    \/ Status
    \/ StatusOverride
    \/ \E l \in Loops : LoopNotified(l)
    \/ \E l \in Loops : LoopWake(l)

CommandSpec == Init /\ [][CommandNext]_vars

\* One task of the feed with its whole loop body, the subscriptions changing
\* beside it, started and stopped by the users.  Every await of the task returns
\* or raises: the event loop resumes a suspended task, a sleep ends, a request
\* is answered or fails.  Commands are under no such obligation.
CatchUpNext ==
    \/ Start(1)
    \/ Stop
    \/ \E c \in WideChannels, m \in Amounts : AddWithin(c, m, WideFeeds)
    \/ \E c \in WideChannels : Remove(c)
    \/ LoopNotified(1)
    \/ LoopWake(1)
    \/ LoopSaleDelay(1)
    \/ LoopFetched(1)
    \/ LoopSendDelay(1)
    \/ LoopSent(1)

\* Weak fairness of the six steps of the task.  For LoopNotified and LoopWake it
\* is written out: such a step is possible exactly while the task is suspended
\* in the notification or in the sleep (the await may always raise, which
\* changes the state), so weak fairness says that the task is not suspended
\* there for ever without the step being taken.
CatchUpFairness ==
    /\ []<>(loop[1].pc # "notify") \/ []<><<LoopNotified(1)>>_vars
    /\ []<>(loop[1].pc # "sleep") \/ []<><<LoopWake(1)>>_vars
    /\ WF_vars(LoopSaleDelay(1)) /\ WF_vars(LoopFetched(1))
    /\ WF_vars(LoopSendDelay(1)) /\ WF_vars(LoopSent(1))

CatchUpSpec == Init /\ [][CatchUpNext]_vars /\ CatchUpFairness

\* ------------------------------------------------------------------ claims
\* Steps of task l, recognised from the states before and after.
\* The task went through `while bot.sales_feed_active` and polled the head.
PollStep(l) ==
    /\ loop[l].pc = "sleep"
    /\ loop'[l] # loop[l]
    /\ loop'[l].pc # "exited"

\* The task began an iteration and is still alive after its first stretch.
IterationStep(l) ==
    /\ loop[l].pc \in {"sleep", "notify"}
    /\ loop'[l] # loop[l]
    /\ Live(loop'[l])

\* The task is inside the loop body, between two awaits of the dispatch.
InBody(r) == r.pc \in {"saleDelay", "fetch", "sendDelay", "send"}

\* The task ended in this step with an exception of kind e.
DiesBy(l, e) ==
    /\ loop'[l].pc = "dead" /\ loop'[l].err = e
    /\ loop'[l] # loop[l] \/ sales_feed_active' # sales_feed_active

LiveLoops == {l \in Loops : Live(loop[l])}

\* C1: within one run the loop works on consecutive block levels: every iteration
\* that gets past the loop limiters works on the block after the cursor, so no
\* level is skipped and none is visited again.
C1_BlocksInOrder ==
    [][\A l \in Loops :
          IterationStep(l) /\ loop'[l].loaded => loop'[l].cur = loop[l].prev + 1]_vars

\* C2: at any time at most one scan loop is live.
C2_SingleLoop == Cardinality(LiveLoops) <= 1

\* C3: when a chain-client call of the loop fails, the active flag is false
\* afterwards.
C3_ChainFailureStops ==
    [][\A l \in Loops : DiesBy(l, "chain") => ~sales_feed_active']_vars

\* C4 as claimed: while the active flag is false no loop polls, extracts or sends,
\* and only start sets the flag and only stop clears it.
C4_InactiveIsQuiet ==
    [][/\ \A l \in Loops :
            \/ PollStep(l)
            \/ IterationStep(l) /\ loop'[l].xl # {}
            \/ loop[l].pc = "sendDelay" /\ loop'[l].pc = "send"
            => sales_feed_active
       /\ ~sales_feed_active /\ sales_feed_active' => \E l \in Loops : Start(l)
       /\ sales_feed_active /\ ~sales_feed_active' => Stop]_vars

\* C4 as amended: while the active flag is false no loop polls the current block
\* (an iteration under way when the flag was cleared still extracts and sends);
\* only start sets the flag and only stop clears it.
C4_InactiveStartsNoIteration ==
    [][/\ \A l \in Loops : PollStep(l) => sales_feed_active
       /\ ~sales_feed_active /\ sales_feed_active' => \E l \in Loops : Start(l)
       /\ sales_feed_active /\ ~sales_feed_active' => Stop]_vars

\* A loop is sending a sale although the flag has been cleared.
C4_Witness ==
    /\ ~sales_feed_active
    /\ \E l \in Loops : loop[l].pc = "send"
    /\ \E l \in Loops : loop[l].pc = "exited"

\* C5: a status query answers 'Running' only while a scan loop is live.
C5_RunningMeansLive == reply = "Running" => LiveLoops # {}

\* C6: a failed detail lookup of a confirmed sale does not end the loop.
C6_ExtractionErrorSkipsSale ==
    \A l \in Loops : ~(loop[l].pc = "dead" /\ loop[l].err = "extraction")

\* C7: a token or profile page answering non-200 does not end the loop.
C7_EnrichmentErrorContained ==
    \A l \in Loops : ~(loop[l].pc = "dead" /\ loop[l].err = "enrichment")

\* C8: a failed channel lookup or send does not end the loop.
C8_DeliveryErrorIsolated ==
    \A l \in Loops : ~(loop[l].pc = "dead" /\ loop[l].err = "delivery")

\* C9: an iteration that finds the head more than one block past the cursor c
\* works on block c + 1 only and leaves the cursor at c + 1.
C9_LagClamped ==
    /\ [](\A l \in Loops :
            InBody(loop[l]) /\ loop[l].head > loop[l].prev + 1
            => loop[l].cur = loop[l].prev + 1 /\ loop[l].xl = {loop[l].cur})
    /\ [][\A l \in Loops :
            /\ IterationStep(l) /\ loop'[l].head > loop[l].prev + 1
               => /\ loop'[l].cur = loop[l].prev + 1
                  /\ loop'[l].xl \subseteq {loop[l].prev + 1}
                  /\ loop'[l].pc = "sleep" => loop'[l].prev = loop[l].prev + 1
            /\ InBody(loop[l]) /\ loop'[l].pc = "sleep"
                 /\ loop[l].head > loop[l].prev + 1
               => loop'[l].prev = loop[l].prev + 1 /\ loop'[l].xl = loop[l].xl]_vars

\* A lagging iteration has extracted its block and gone to sleep.
C9_Witness ==
    \E l \in Loops :
        /\ loop[l].pc = "sleep" /\ loop[l].head > loop[l].prev
        /\ loop[l].xl = {loop[l].prev} /\ loop[l].sent

\* C10: an iteration that finds the head at the cursor keeps the cursor, loads no
\* subscriptions, extracts nothing, sends nothing, and sleeps.
C10_NoAdvanceIsIdle ==
    [][\A l \in Loops :
          PollStep(l) /\ Live(loop'[l]) /\ loop'[l].head = loop[l].prev
          => /\ loop'[l].pc = "sleep"
             /\ loop'[l].prev = loop[l].prev
             /\ ~loop'[l].loaded /\ loop'[l].xl = {} /\ ~loop'[l].sent]_vars

\* A loop sleeps after an iteration that found the head at the cursor.
C10_Witness ==
    \E l \in Loops :
        /\ loop[l].pc = "sleep" /\ loop[l].head = loop[l].prev
        /\ ~loop[l].loaded /\ sales_feed_table # <<>>

\* A start command is handled: by either branch of `start`.
StartCommand == StartRejected \/ \E l \in Loops : Start(l)

\* C11: a start command issued while the active flag is set changes neither the
\* flag nor any loop (its cursor, the number of live loops), and the user is told
\* the feed is already running.
C11_StartWhileRunningIsNoOp ==
    [][sales_feed_active /\ StartCommand
       => /\ reply' = "already running"
          /\ UNCHANGED <<sales_feed_active, loop>>]_vars

\* A start command was refused while a loop with a cursor was asleep.
C11_Witness ==
    /\ reply = "already running"
    /\ sales_feed_active
    /\ \E l \in Loops : loop[l].pc = "sleep" /\ loop[l].prev # None

\* C12: every step that sets or clears the active flag sends the user a status
\* notification ("started at block N", "stopped at block N").
C12_TransitionNotified ==
    [][sales_feed_active' # sales_feed_active
       => reply' \in {"started", "stopped"}]_vars

\* C13: a loop that is live when the flag has been cleared by a stop command
\* eventually ends, whatever commands follow the stop.
C13_StoppedLoopExits ==
    \A l \in Loops : (Live(loop[l]) /\ ~sales_feed_active) ~> ~Live(loop[l])

\* The task is dispatching a sale: between the channel lookup and the send.
Dispatching(r) == r.pc \in {"fetch", "sendDelay", "send"}

SeqRange(q) == {q[i] : i \in 1..Len(q)}

\* The channels of the snapshot whose minimum amount (Tez) is at most the amount
\* of the sale (MuTez).
MatchingChannels(snap, sale) ==
    {snap[i].channel_id :
        i \in {k \in 1..Len(snap) : snap[k].minimum_sale_amount * MuTez <= sale.amount}}

\* The dispatch of the sale at hand ended in this step without an exception.
DispatchDone(l) ==
    /\ loop[l].pc \in {"saleDelay", "send"}
    /\ loop'[l] # loop[l]
    /\ Live(loop'[l]) /\ loop'[l].pc # "fetch"

\* C14: a sale is sent to the channels of the snapshot whose minimum amount is
\* at most the sale's amount and to no other: every channel a sale is sent to is
\* such a channel, and when the dispatch of the sale ends the channels it was sent
\* to are all of them.
C14_DispatchMatchesThreshold ==
    /\ [](\A l \in Loops :
            Dispatching(loop[l])
            => SeqRange(loop[l].got) \cup {loop[l].to}
                 \subseteq MatchingChannels(loop[l].snap, loop[l].sales[loop[l].si]))
    /\ [][\A l \in Loops :
            DispatchDone(l)
            => (IF loop[l].pc = "send"
                THEN SeqRange(loop[l].got) \cup {loop[l].to} ELSE {})
               = MatchingChannels(loop[l].snap, loop[l].sales[loop[l].si])]_vars

\* The first sale of a block went to one of two subscribed channels only, and the
\* task has moved on to the second sale.
C14_Witness ==
    \E l \in Loops :
        /\ loop[l].pc = "saleDelay" /\ loop[l].si = 2 /\ loop[l].sent
        /\ Cardinality({loop[l].snap[i].channel_id : i \in 1..Len(loop[l].snap)}) = 2
        /\ Cardinality(MatchingChannels(loop[l].snap, loop[l].sales[1])) = 1

\* C15: no channel is sent the same sale twice.
C15_NoChannelTwice ==
    [][\A l \in Loops :
          loop[l].pc = "send" /\ loop'[l] # loop[l] /\ loop'[l].pc # "dead"
          => loop[l].to \notin SeqRange(loop[l].got)]_vars

\* The block filter of the call at hand has run.
Filtered == extractor.pc \in {"filtered", "returned"}

\* The rows of the block that are collect transactions of operation h to the
\* marketplace contract with an amount of at least the floor.
QualifyingCollects(h) ==
    {i \in 1..Len(extractor.txns) :
        /\ extractor.txns[i].hash = h
        /\ extractor.txns[i].entrypoint = "collect"
        /\ extractor.txns[i].target = FXHASH_MARKETPLACE
        /\ extractor.txns[i].amount >= extractor.min_sale_amount * 1000000}

\* The rows of the block that are transfer transactions of operation h.
Transfers(h) ==
    {i \in 1..Len(extractor.txns) :
        extractor.txns[i].hash = h /\ extractor.txns[i].entrypoint = "transfer"}

\* C16: an operation hash is confirmed if and only if the block holds exactly one
\* qualifying collect and exactly one transfer of that hash.
C16_ConfirmedIffOneCollectOneTransfer ==
    Filtered
    => \A h \in OpHashes :
          h \in SeqRange(extractor.hashes)
          <=> Cardinality(QualifyingCollects(h)) = 1 /\ Cardinality(Transfers(h)) = 1

\* A call returned one sale from a block in which another operation has a
\* qualifying collect and no transfer.
C16_Witness ==
    /\ extractor.pc = "returned" /\ Len(extractor.sales) = 1
    /\ \E h \in OpHashes :
         /\ h \notin SeqRange(extractor.hashes)
         /\ Cardinality(QualifyingCollects(h)) = 1 /\ Transfers(h) = {}

\* C17: an operation hash with two collect transactions in the block is not
\* confirmed, whatever their amounts and targets.
C17_TwoCollectsNoSale ==
    Filtered
    => \A h \in OpHashes :
          Cardinality({i \in 1..Len(extractor.txns) :
                          /\ extractor.txns[i].hash = h
                          /\ extractor.txns[i].entrypoint = "collect"}) = 2
          => h \notin SeqRange(extractor.hashes)

\* C18: the amount of every returned sale is the raw amount of the collect
\* transaction that qualified its hash (both sides in MuTez per 1,000,000).
C18_AmountOfQualifyingCollect ==
    extractor.pc = "returned"
    => \A k \in 1..Len(extractor.sales) :
          \A i \in QualifyingCollects(extractor.sales[k].txn_hash) :
              extractor.sales[k].amount = extractor.txns[i].amount

\* C20: every sale the extractor built was built from detail records that hold
\* a collect record and a transfer record.
C20_NoSaleWithoutCollectAndTransfer ==
    \A k \in 1..Len(extractor.sales) :
        /\ \E i \in 1..Len(extractor.details[k]) :
              extractor.details[k][i].entrypoint = "collect"
        /\ \E i \in 1..Len(extractor.details[k]) :
              extractor.details[k][i].entrypoint = "transfer"

\* C21: an iteration that loads an empty subscription table moves the cursor to
\* the clamped target, extracts nothing, sends nothing, and sleeps.
C21_EmptySnapshotSkipsBlock ==
    [][\A l \in Loops :
          IterationStep(l) /\ loop'[l].loaded /\ sales_feed_table = <<>>
          => /\ loop'[l].pc = "sleep"
             /\ loop'[l].prev = IF loop'[l].head > loop[l].prev + 1
                                THEN loop[l].prev + 1 ELSE loop'[l].head
             /\ loop'[l].xl = {} /\ ~loop'[l].sent]_vars

\* A task that lags behind the head sleeps after an iteration that loaded the
\* empty table.
C21_Witness ==
    /\ sales_feed_table = <<>>
    /\ \E l \in Loops :
         /\ loop[l].pc = "sleep" /\ loop[l].loaded /\ loop[l].xl = {}
         /\ loop[l].head > loop[l].prev

\* C22: the rows a block's sales are dispatched by are those the table held
\* when the iteration loaded it: the snapshot is the table at the load, it stays
\* the same to the end of the iteration, and every sale goes to the channels of
\* the snapshot that match it, all of them, whatever the table holds by then.
C22_SnapshotPerIteration ==
    [][\A l \in Loops :
          /\ IterationStep(l) /\ InBody(loop'[l])
             => loop'[l].snap = sales_feed_table
          /\ InBody(loop[l]) /\ InBody(loop'[l]) => loop'[l].snap = loop[l].snap
          /\ loop'[l].pc = "fetch" /\ loop'[l] # loop[l]
             => loop'[l].to \in
                  MatchingChannels(loop[l].snap, loop'[l].sales[loop'[l].si])
          /\ DispatchDone(l) /\ loop[l].pc = "send"
             => SeqRange(loop[l].got) \cup {loop[l].to}
                  = MatchingChannels(loop[l].snap, loop[l].sales[loop[l].si])]_vars

\* A sale is being sent to a channel whose row has been removed meanwhile.
C22_Witness ==
    \E l \in Loops :
        /\ loop[l].pc = "send"
        /\ \A i \in 1..Len(sales_feed_table) :
              sales_feed_table[i].channel_id # loop[l].to

\* C23: a run begins with the cursor at the reported head N minus 1 and the
\* notification "started at block N"; that notification is sent at no other
\* step; the first iteration of the run works on block N.
C23_FirstIteration ==
    [][/\ \A l \in Loops :
            loop'[l].pc = "notify" /\ loop'[l] # loop[l]
            => /\ reply' = "started"
               /\ loop'[l].prev = loop'[l].head - 1 /\ loop'[l].cur = loop'[l].head
       /\ reply' = "started"
          => \E l \in Loops : loop'[l].pc = "notify" /\ ~Live(loop[l])
       /\ \A l \in Loops :
            loop[l].pc = "notify" /\ loop'[l] # loop[l] /\ Live(loop'[l])
            => /\ loop'[l].loaded /\ loop'[l].cur = loop[l].head
               /\ loop'[l].xl \subseteq {loop[l].head}
               /\ loop'[l].pc = "sleep" => loop'[l].prev = loop[l].head]_vars

\* A run has just begun above block 1.
C23_Witness ==
    /\ reply = "started"
    /\ \E l \in Loops :
         /\ loop[l].pc = "notify" /\ loop[l].head > 1
         /\ loop[l].prev = loop[l].head - 1

\* C24: the current-block call raises the chain error when the response is not
\* of status 200 or its payload lacks the level or the hash, and otherwise
\* returns the level and the hash of the payload as they are.
C24_CurrentBlockContract ==
    client.fn = "head" /\ client.pc # "called"
    => IF client.status # 200 \/ client.level = None \/ client.hash = NoHash
       THEN client.pc = "raised" /\ client.err = "TezosError"
       ELSE client.pc = "returned" /\ client.ret = <<client.level, client.hash>>

\* The call met a response that is not of status 200 and raised.
C24_Witness ==
    /\ client.fn = "head" /\ client.pc = "raised"
    /\ client.status = 404 /\ client.level # None /\ client.hash # NoHash

\* C25: the alias lookup returns the alias of the profile page when the title
\* pattern matches, and the wallet address it was given in every other case;
\* it raises nothing.
C25_AliasOrAddress ==
    client.fn = "alias" /\ client.pc # "called"
    => /\ client.pc = "returned"
       /\ client.ret = <<IF client.status = 200 /\ client.matches # <<>>
                         THEN client.matches[1] ELSE client.address>>

\* C26: a storage diff of any shape but the expected one gives the unknown
\* seller address, and reading the seller raises nothing.
C26_UnknownSellerNotFatal ==
    client.fn = "seller" /\ client.pc # "called"
    => /\ client.pc = "returned"
       /\ client.diffs # "issuer" => client.ret = <<NoAddress>>

\* C27: no sale the extractor returns has an amount below the floor it was
\* called with (both sides in MuTez), so every returned sale matches the
\* subscription the floor was taken from.
C27_ReturnedSaleReachesFloor ==
    extractor.pc = "returned"
    => \A k \in 1..Len(extractor.sales) :
          extractor.sales[k].amount >= extractor.min_sale_amount * MuTez

\* C28: the table holds at most one row per (guild, channel) pair.
C28_OneRowPerChannel ==
    \A i, j \in 1..Len(sales_feed_table) :
        /\ sales_feed_table[i].guild_id = sales_feed_table[j].guild_id
        /\ sales_feed_table[i].channel_id = sales_feed_table[j].channel_id
        => i = j

\* C29: after a remove command for a channel the table holds no row of that
\* channel, whatever minimum amount its row had.
C29_RemoveDeletesRecord ==
    [][\A c \in WideChannels :
          Remove(c) => SelectRows(sales_feed_table', c) = <<>>]_vars

\* C30: clearing the flag changes no task of the feed; a task leaves the loop
\* only when it finds the flag cleared after the sleep that ends an iteration;
\* and a task inside the body of an iteration, exceptions apart, goes on with
\* the same block sale by sale and reaches the sleep only after the last sale
\* of the block has been sent to all the channels that match it.
C30_StopLetsIterationFinish ==
    [][/\ sales_feed_active /\ ~sales_feed_active' => UNCHANGED loop
       /\ \A l \in Loops :
            /\ loop'[l].pc = "exited" /\ loop[l].pc # "exited"
               => loop[l].pc = "sleep" /\ ~sales_feed_active
            /\ InBody(loop[l]) /\ loop'[l] # loop[l] /\ loop'[l].pc # "dead"
               => /\ loop'[l].pc = "sleep"
                     => /\ loop[l].si = Len(loop[l].sales)
                        /\ loop'[l].prev = loop[l].cur
                  /\ loop'[l].pc # "sleep"
                     => /\ InBody(loop'[l])
                        /\ loop'[l].cur = loop[l].cur
                        /\ loop'[l].sales = loop[l].sales
                        /\ loop'[l].si \in {loop[l].si, loop[l].si + 1}
                  /\ loop'[l].pc = "sleep" \/ loop'[l].si # loop[l].si
                     => MatchingChannels(loop[l].snap, loop[l].sales[loop[l].si])
                          = IF loop[l].pc = "send"
                            THEN SeqRange(loop[l].got) \cup {loop[l].to}
                            ELSE {}]_vars

\* With the flag cleared, a task is sending the second sale of its block after
\* it has sent the first.
C30_Witness ==
    /\ ~sales_feed_active /\ reply = "none"
    /\ \E l \in Loops :
         loop[l].pc = "send" /\ loop[l].si = 2 /\ loop[l].sent

\* The sleep a task is in: "stale" after `Block hasn't advanced`, "idle" after an
\* empty table, "steady" after the loop body.
SleepKind(r) ==
    IF ~r.loaded THEN "stale" ELSE IF r.xl = {} THEN "idle" ELSE "steady"

\* Task l went from one sleep of kind a to its next sleep, of kind b.
NextSleep(l, a, b) ==
    /\ loop[l].pc = "sleep" /\ loop'[l].pc = "sleep" /\ loop'[l] # loop[l]
    /\ SleepKind(loop[l]) = a /\ SleepKind(loop'[l]) = b

\* C32 as claimed: the sleep of an iteration that found the chain not advanced
\* is strictly shorter than the sleep after a processed block, and the sleep of
\* an iteration that found no subscription is longer than the no-advance sleep.
C32_StaleSleepShorter ==
    [][\A l \in Loops :
          /\ NextSleep(l, "steady", "stale") => loop'[l].delay < loop[l].delay
          /\ NextSleep(l, "stale", "steady") => loop[l].delay < loop'[l].delay
          /\ NextSleep(l, "idle", "stale") => loop'[l].delay < loop[l].delay
          /\ NextSleep(l, "stale", "idle") => loop[l].delay < loop'[l].delay]_vars

\* C32 as amended: the no-advance sleep is as long as the sleep after a processed
\* block, and the sleep of an iteration that found no subscription is longer
\* than both.
C32_StaleSleepEqualIdleLonger ==
    [][\A l \in Loops :
          /\ NextSleep(l, "steady", "stale") => loop'[l].delay = loop[l].delay
          /\ NextSleep(l, "stale", "steady") => loop[l].delay = loop'[l].delay
          /\ NextSleep(l, "idle", "stale") => loop'[l].delay < loop[l].delay
          /\ NextSleep(l, "stale", "idle") => loop[l].delay < loop'[l].delay
          /\ NextSleep(l, "idle", "steady") => loop'[l].delay < loop[l].delay
          /\ NextSleep(l, "steady", "idle") => loop[l].delay < loop'[l].delay]_vars

\* A task sleeps because the chain has not advanced past its cursor, with a
\* subscription in the table.
C32_Witness ==
    /\ sales_feed_table # <<>>
    /\ \E l \in Loops :
         /\ loop[l].pc = "sleep" /\ SleepKind(loop[l]) = "stale"
         /\ loop[l].prev = loop[l].head

\* The channel ids of the rows of the snapshot that match the sale at hand, in
\* the order of the snapshot.
PostOrder(r) ==
    LET rows == SelectSeq(r.snap,
                          LAMBDA x : x.minimum_sale_amount * MuTez
                                       <= r.sales[r.si].amount)
    IN [i \in 1..Len(rows) |-> rows[i].channel_id]

\* C31: the dispatch of a task is sequential and ordered.  While a sale is
\* dispatched, the channels it has been sent to and the one it is being sent to
\* are the first matching channels of the snapshot, in its order.  A send is
\* entered only from the delay before it, that delay only from the channel lookup,
\* and the lookup only for the first channel of the sale or for the channel after
\* the one just sent to.  The next sale begins only when the sale at hand has
\* gone to its last channel, and it is the next of the list.
C31_SequentialDispatch ==
    /\ [](\A l \in Loops :
            Dispatching(loop[l])
            => /\ loop[l].ci \in 1..Len(PostOrder(loop[l]))
               /\ loop[l].to = PostOrder(loop[l])[loop[l].ci]
               /\ loop[l].got = SubSeq(PostOrder(loop[l]), 1, loop[l].ci - 1))
    /\ [][\A l \in Loops :
            loop'[l] # loop[l]
            => /\ loop'[l].pc = "send"
                  => /\ loop[l].pc = "sendDelay"
                     /\ loop'[l].si = loop[l].si /\ loop'[l].ci = loop[l].ci
               /\ loop'[l].pc = "sendDelay"
                  => /\ loop[l].pc = "fetch"
                     /\ loop'[l].si = loop[l].si /\ loop'[l].ci = loop[l].ci
               /\ loop'[l].pc = "fetch"
                  => /\ loop'[l].si = loop[l].si
                     /\ \/ loop[l].pc = "saleDelay" /\ loop'[l].ci = 1
                        \/ loop[l].pc = "send" /\ loop'[l].ci = loop[l].ci + 1
               /\ InBody(loop[l]) /\ loop'[l].pc = "saleDelay"
                  => /\ loop'[l].si = loop[l].si + 1
                     /\ loop'[l].sales = loop[l].sales
                     /\ \/ loop[l].pc = "send"
                           /\ loop[l].ci = Len(PostOrder(loop[l]))
                        \/ loop[l].pc = "saleDelay"
                           /\ PostOrder(loop[l]) = <<>>]_vars

\* The second sale of a block is being sent to the second channel that matches
\* it, after the first sale went out.
C31_Witness ==
    \E l \in Loops :
        /\ loop[l].pc = "send" /\ loop[l].si = 2 /\ loop[l].ci = 2
        /\ loop[l].sent /\ Len(loop[l].got) = 1

\* C34: within one run the cursor never decreases.
C34_CursorNeverDecreases ==
    [][\A l \in Loops :
          Live(loop[l]) /\ Live(loop'[l]) => loop'[l].prev >= loop[l].prev]_vars

\* A start command began a run in slot l.
RunBegins(l) == ~Live(loop[l]) /\ loop'[l].pc = "notify"

RunningAtHead(H) ==
    sales_feed_active /\ Live(loop[1]) /\ loop[1].head = H

\* C35: when the run lasts, no call fails, a subscription exists whenever the
\* task is alive and from some time on every poll reports the head H, then the
\* task passes block H to the extraction.
C35_CatchesUpWithHead ==
    \A H \in Levels :
        /\ [](Live(loop[1]) => sales_feed_table # <<>>)
        /\ <>[]RunningAtHead(H)
        => <>(H \in loop[1].xl)

\* The task has worked its way up to the highest head and sleeps with nothing
\* more to do.
C35_Witness ==
    /\ sales_feed_active /\ sales_feed_table # <<>>
    /\ loop[1].pc = "sleep" /\ loop[1].head = MaxLevel
    /\ loop[1].prev = MaxLevel /\ loop[1].xl = {MaxLevel}

\* C37: a status typed by a user after the notify command is not sent: the
\* command changes nothing and is answered by the report of its failure.  The
\* statuses 'started' and 'stopped' reach the channel only from the start
\* command that began a run and from the stop command, which do send them.
C37_NoSpoofedStatus ==
    [][/\ StatusOverride => reply' = CommandFailed
       /\ reply' = "started" /\ reply # "started"
          => \E l \in Loops : Start(l) /\ loop'[l].pc = "notify"
       /\ reply' = "stopped" /\ reply # "stopped" => Stop
       /\ \A l \in Loops : Start(l) /\ loop'[l].pc = "notify" => reply' = "started"
       /\ Stop => reply' \in {"stopped", CommandFailed}]_vars

\* A user's notify command with a status has just been refused while the feed
\* runs: the flag is set and nothing else has failed.
C37_Witness ==
    /\ reply = CommandFailed /\ sales_feed_active
    /\ \A l \in Loops : loop[l].pc # "dead"
    /\ \E l \in Loops : loop[l].pc = "sleep"

\* The handlers that are inside the role section of user u.
InRoleSection(u) ==
    {h \in Handlers : roles.handler[h].pc = "roles" /\ roles.handler[h].user = u}

\* C36: the lock manager gives every handler of a user the one lock object it
\* holds for that user, and has created one lock for each user who has one and
\* no other; no two handlers of one user are inside the role section at the
\* same time; and a handler waits only for a handler of its own user: the lock it
\* waits for is held by, or about to be taken by, a handler of the same user.
C36_OneLockPerUser ==
    /\ \A h \in Handlers :
          roles.handler[h].pc \in {"waiting", "roles"}
          => /\ roles.handler[h].lock # 0
             /\ roles.handler[h].lock = roles.locks[roles.handler[h].user]
    /\ roles.made = Cardinality({u \in Users : roles.locks[u] # 0})
    /\ \A u, v \in Users :
          roles.locks[u] # 0 /\ roles.locks[u] = roles.locks[v] => u = v
    /\ \A u \in Users : Cardinality(InRoleSection(u)) <= 1
    /\ \A h \in Handlers :
          roles.handler[h].pc = "waiting"
          => LET k == roles.handler[h].lock
                 first == IF roles.owner[k] # 0 THEN roles.owner[k]
                          ELSE Head(roles.wait[k])
             IN /\ \E i \in 1..Len(roles.wait[k]) : roles.wait[k][i] = h
                /\ roles.handler[first].user = roles.handler[h].user
                /\ roles.owner[k] = 0 => first = h \/ roles.handler[first].pc = "waiting"
                /\ roles.owner[k] # 0 => roles.handler[first].pc = "roles"

\* A handler for a reaction that was removed waits for the lock of its user,
\* held by the handler for the reaction that user added, while a handler of
\* another user is inside its own role section.
C36_Witness ==
    \E h1, h2, h3 \in Handlers :
        /\ roles.handler[h1].pc = "roles" /\ roles.handler[h1].kind = "add"
        /\ roles.handler[h2].pc = "waiting" /\ roles.handler[h2].kind = "remove"
        /\ roles.handler[h2].user = roles.handler[h1].user
        /\ roles.handler[h3].pc = "roles"
        /\ roles.handler[h3].user # roles.handler[h1].user

====
